---- MODULE Spec2Model ----
(***************************************************************************)
(* Model of liuchong/go-flake: the instantiable generator flake.Gen        *)
(* (src/flake.go) with its callers, its lock and the wall clock, its batch *)
(* operation GenMulti, the package-level generator of src/fid.go, and the  *)
(* transport codec FlakeID.ToString / FlakeID.FromString.                  *)
(*                                                                         *)
(* TLC's integers are 32 bits wide, so the 64-bit layout 41 | 10 | 13 is   *)
(* modelled at a reduced width: the field widths below are bounds of the   *)
(* model, and every shift, mask and wrap of the code is computed on words  *)
(* of WordBits bits exactly as the code computes it on 64.                 *)
(***************************************************************************)
EXTENDS Integers, Sequences, FiniteSets, TLC

\* ------------------------------------------------------------------ bounds

\* Width of the timestamp field (41 in the source: 64 - 13 - 10).
TsBitsBound == 2
\* Width of the worker field (10 in the source).
WorkerBitsBound == 6
\* Width of the sequence field (13 in the source).
SeqBitsBound == 1
\* The default epoch (1234567891011 in the source), on the model's clock scale.
EpochBound == 2
\* The wall clock runs over 0..MaxClock (and past it only to end a wait).
MaxClock == 5
\* Total number of NextID calls made in one behaviour.
MaxCalls == 5
\* The same where the clock may be set back.
MaxCallsBack == 4
\* The same where termination is checked.
MaxCallsFair == 3
\* The same where two generators are in use.
MaxCallsTwo == 3
\* The same where GenMulti is in use, and the largest batch GenMulti is asked for.
MaxCallsMulti == 3
MaxBatch == 2
\* The same for the package-level generator of fid.go.
MaxCallsFid == 3
\* The same where the two generators run side by side (calls of both).
MaxCallsAgree == 6
\* Number of times the wall clock is set back in one behaviour.
MaxBack == 1
\* Length of the codec's input strings, in pieces of up to four characters.
MaxQuanta == 4
\* Number of concurrent callers.
NProcs == 2

\* --------------------------------------------------------- word arithmetic

RECURSIVE Pow2(_)
Pow2(n) == IF n = 0 THEN 1 ELSE 2 * Pow2(n - 1)

\* flake.go:12
workerIDBits == WorkerBitsBound
\* flake.go:14
sequenceBits == SeqBitsBound
\* flake.go:15
workerIDShift == sequenceBits
\* flake.go:16
timestampLeftShift == sequenceBits + workerIDBits
\* flake.go:21,24: FlakeID is one machine word, timestamp | worker | sequence.
WordBits == TsBitsBound + workerIDBits + sequenceBits

\* The bit pattern of a signed integer in a word (two's complement); also the
\* conversion FlakeID(int64).
ToWord(x) == x % Pow2(WordBits)

\* x << n on a word: bits shifted past the top are lost.
Shl(x, n) == (ToWord(x) * Pow2(n)) % Pow2(WordBits)

RECURSIVE BitOp(_, _, _, _)
\* Bitwise a op b on the low n bits of two words; op is "and", "or" or "xor".
BitOp(op, a, b, n) ==
    IF n = 0 THEN 0
    ELSE LET x == a % 2
             y == b % 2
             bit == CASE op = "and" -> IF x = 1 /\ y = 1 THEN 1 ELSE 0
                      [] op = "or"  -> IF x = 1 \/ y = 1 THEN 1 ELSE 0
                      [] OTHER      -> IF x # y THEN 1 ELSE 0
         IN  bit + 2 * BitOp(op, a \div 2, b \div 2, n - 1)

BitAnd(a, b) == BitOp("and", ToWord(a), ToWord(b), WordBits)
BitOr(a, b) == BitOp("or", ToWord(a), ToWord(b), WordBits)
BitXor(a, b) == BitOp("xor", ToWord(a), ToWord(b), WordBits)

\* flake.go:13  int64(-1) ^ (int64(-1) << workerIDBits)
maxWorkerID == BitXor(-1, Shl(-1, workerIDBits))
\* Mutation of sequenceMask: the mask is one bit too wide.
sequenceMaskWide == BitXor(-1, Shl(-1, sequenceBits + 1))

\* flake.go:17  int64(-1) ^ (int64(-1) << sequenceBits)
sequenceMask == BitXor(-1, Shl(-1, sequenceBits))
\* flake.go:49
defaultEpoch == EpochBound

\* ------------------------------------------------------------------- state

Procs == 1..NProcs
\* The generator instances.
Gens == {1, 2}
NoProc == 0
\* A generator that was not constructed (the nil *Gen).
Nil == [made |-> FALSE, seq |-> 0, ts |-> 0, fepoch |-> 0, workerID |-> 0]

VARIABLES
    clock,    \* the wall clock in milliseconds (time.Now().UnixNano() / 1e6)
    gen,      \* gen[g]: the Gen struct of instance g, or Nil
    newRes,   \* newRes[g]: arguments and error of the last NewGen call for g
    mutex,    \* mutex[g]: the caller holding g's sync.Mutex, or NoProc
    pc,       \* pc[p]: where caller p is in NextID
    loc,      \* loc[p]: the locals of p's NextID call (g, ts, lastTs, seq)
    out,      \* out[g]: the IDs NextID returned for g, in return order
    left,     \* how many NextID calls may still begin
    backs,    \* how many times the clock was set back
    str,      \* the codec's input string
    dec,      \* the codec's result for str
    x64,      \* the 64-bit value the codec encodes, or <<>>
    multi,    \* multi[p]: the locals of p's GenMulti call
    fid,      \* the package-level variables of fid.go
    fout      \* what fid.NextID returned, in return order

vars == <<clock, left, backs, gen, newRes, mutex, pc, loc, out, str, dec, x64,
          multi, fid, fout>>

\* -------------------------------------------------------------- flake.go

\* Mutation of WorkerIDOk: the upper limit is not checked.
WorkerIDOkNoUpper(workerID) == ~(workerID < 0)

\* flake.go:36: the worker ID is accepted.
WorkerIDOk(workerID) == ~(workerID < 0 \/ workerID > maxWorkerID)

\* Mutation of EpochOk: an epoch equal to the clock is rejected too.
EpochOkStrict(now, fepoch) == ~(now <= fepoch)

\* flake.go:42: the epoch is accepted at clock value now.
EpochOk(now, fepoch) == ~(now < fepoch)

\* flake.go:35-58  NewGen(workerID, fepoch) with getTsInfo() = now: the error
\* ("workerID", "fepoch" or "none") and the generator returned (Nil with an error).
NewGenResult(workerID, fepoch, now) ==
    IF ~WorkerIDOk(workerID) THEN [err |-> "workerID", g |-> Nil]
    ELSE IF ~EpochOk(now, fepoch) THEN [err |-> "fepoch", g |-> Nil]
    ELSE [err |-> "none",
          g |-> [made |-> TRUE, seq |-> -1, ts |-> -1,
                 fepoch |-> IF fepoch <= 0 THEN defaultEpoch ELSE fepoch,
                 workerID |-> workerID]]

\* Mutation of SameMs: a sample behind lastTs is taken for the same millisecond.
SameMsOrBehind(ts, lastTs) == ts <= lastTs

\* flake.go:71  case ts == lastTs
SameMs(ts, lastTs) == ts = lastTs

\* Mutation of NextSeq: the sequence is advanced without the mask.
NextSeqNoMask(seq) == seq + 1

\* flake.go:72  (seq + 1) & sequenceMask
NextSeq(seq) == BitAnd(seq + 1, sequenceMask)

\* Mutation of WaitCond: the loop ends on a sample equal to lastTs.
WaitCondStrict(ts, lastTs) == ts < lastTs

\* flake.go:74  the condition of the exhaustion wait loop
WaitCond(ts, lastTs) == ts <= lastTs

\* Mutation of MakeID: the timestamp is shifted by workerIDShift only.
MakeIDLowShift(ts, fepoch, workerID, seq) ==
    BitOr(BitOr(Shl(ts - fepoch, workerIDShift), Shl(workerID, workerIDShift)),
          seq)

\* flake.go:86-94  the packed ID
MakeID(ts, fepoch, workerID, seq) ==
    BitOr(BitOr(Shl(ts - fepoch, timestampLeftShift), Shl(workerID, workerIDShift)),
          seq)

\* Mutation of CanLock: the lock excludes nobody.
CanLockAlways(g) == TRUE

\* flake.go:62  g.Lock() can return: the mutex is free.
CanLock(g) == mutex[g] = NoProc

\* Mutation of Unlock: the lock is not released.
UnlockNot(g) == mutex

\* flake.go:63  the deferred g.Unlock(): the mutexes afterwards
Unlock(g) == [mutex EXCEPT ![g] = NoProc]

\* Arguments the callers of NewGen pass.
WorkerInputs == {-1, 0, maxWorkerID, maxWorkerID + 1}
EpochInputs == {0, 1, MaxClock + 1}

NoRes == [workerID |-> 0, fepoch |-> 0, now |-> 0, err |-> "nocall"]
NoLoc == [g |-> 0, ts |-> 0, lastTs |-> 0, seq |-> 0, exh |-> FALSE]
NoDec == [done |-> FALSE, err |-> FALSE, panic |-> FALSE, n |-> 0, id |-> <<>>]
\* No GenMulti call by a caller.
NoMulti == [pkg |-> "none"]

\* The locals of a GenMulti call as it begins: pkg is "flake" or "fid", g the
\* generator, n the argument, i the loop counter, b the byte slice
\* (make([]byte, n*8)), id and err what the last NextID call returned; idx
\* lists where in out[g] (or fout) the results of the batch's NextID calls are,
\* from is the length of that list when the call began, pre the generator's
\* timestamp and sequence then, and done is set when the call has returned (nil
\* is TRUE when it returned no slice).
NewMulti(pkg, g, n, from, pre) ==
    [pkg |-> pkg, g |-> g, n |-> n, i |-> 0, b |-> [k \in 1..(n * 8) |-> 0],
     id |-> 0, err |-> FALSE, idx |-> <<>>, from |-> from, pre |-> pre,
     done |-> (n = 0), nil |-> FALSE]

\* The generators NewGen returns at clock value now.
MadeGens(now) ==
    {NewGenResult(w, e, now).g : w \in WorkerInputs, e \in EpochInputs}
        \ {Nil}

\* State shared by every initial state: nobody is in a call.
Idle ==
    /\ backs = 0
    /\ newRes = [g \in Gens |-> NoRes]
    /\ mutex = [g \in Gens |-> NoProc]
    /\ pc = [p \in Procs |-> "idle"]
    /\ loc = [p \in Procs |-> NoLoc]
    /\ out = [g \in Gens |-> <<>>]
    /\ multi = [p \in Procs |-> NoMulti]
    /\ fout = <<>>

\* The codec is not in use.
NoCodec == str = <<>> /\ dec = NoDec /\ x64 = <<>>

\* fid.go:33-41  the package-level variables as the program starts, with the
\* worker ID that Config stored.
FidStart(id) == [workerID |-> id, lastTs |-> -1, seq |-> 0, mu |-> NoProc]

\* The package fid is not in use.
NoFid == fid = FidStart(0)

\* One generator, constructed by NewGen at the initial clock value.
Init ==
    /\ clock \in 0..defaultEpoch
    /\ \E m \in MadeGens(clock) : gen = [g \in Gens |-> IF g = 1 THEN m ELSE Nil]
    /\ left = MaxCalls
    /\ Idle
    /\ NoFid
    /\ NoCodec

\* One generator, constructed by NewGen at the initial clock value, with the
\* call budget of the behaviours in which the clock may be set back.
InitBack ==
    /\ clock \in 0..defaultEpoch
    /\ \E m \in MadeGens(clock) : gen = [g \in Gens |-> IF g = 1 THEN m ELSE Nil]
    /\ left = MaxCallsBack
    /\ Idle
    /\ NoFid
    /\ NoCodec

\* Two generators with different worker IDs, each constructed by NewGen at
\* clock value defaultEpoch. The callers treat the two alike, so generator 1 is
\* taken to be the one with the smaller worker ID; generator 2 has the default
\* epoch, generator 1 that or an earlier one.
InitTwo ==
    /\ clock = defaultEpoch
    /\ gen \in [Gens -> MadeGens(clock)]
    /\ gen[1].workerID < gen[2].workerID
    /\ gen[2].fepoch = defaultEpoch
    /\ left = MaxCallsTwo
    /\ Idle
    /\ NoFid
    /\ NoCodec

\* One generator, constructed by NewGen(maxWorkerID, 0) at clock value
\* defaultEpoch, with the call budget of the termination check.
InitFair ==
    /\ clock = defaultEpoch
    /\ gen = [g \in Gens |->
                IF g = 1 THEN NewGenResult(maxWorkerID, 0, clock).g ELSE Nil]
    /\ left = MaxCallsFair
    /\ Idle
    /\ NoFid
    /\ NoCodec

\* No generator yet: NewGen is about to be called.
InitNew ==
    /\ clock \in 0..defaultEpoch
    /\ gen = [g \in Gens |-> Nil]
    /\ left = 0
    /\ Idle
    /\ NoFid
    /\ NoCodec

\* Caller p is inside GenMulti of package pkg ("flake" or "fid").
InBatch(p, pkg) == multi[p].pkg = pkg /\ ~multi[p].done

\* flake.go:35-58  NewGen: instance g is constructed (once) by its owner.
NewGen(g, workerID, fepoch) ==
    /\ ~gen[g].made
    /\ LET r == NewGenResult(workerID, fepoch, clock)
       IN  /\ gen' = [gen EXCEPT ![g] = r.g]
           /\ newRes' = [newRes EXCEPT ![g] =
                  [workerID |-> workerID, fepoch |-> fepoch, now |-> clock,
                   err |-> r.err]]
    /\ UNCHANGED <<clock, left, backs, mutex, pc, loc, out, str, dec, x64,
                   multi, fid, fout>>

\* flake.go:61  caller p enters g.NextID().
Call(p, g) ==
    /\ pc[p] = "idle"
    /\ gen[g].made
    /\ left > 0
    /\ left' = left - 1
    /\ pc' = [pc EXCEPT ![p] = "lock"]
    /\ loc' = [loc EXCEPT ![p] = [NoLoc EXCEPT !.g = g]]
    /\ UNCHANGED <<clock, backs, gen, newRes, mutex, out, str, dec, x64, multi,
                   fid, fout>>

\* flake.go:62  g.Lock()
Lock(p) ==
    /\ pc[p] = "lock"
    /\ CanLock(loc[p].g)
    /\ mutex' = [mutex EXCEPT ![loc[p].g] = p]
    /\ pc' = [pc EXCEPT ![p] = "sample"]
    /\ UNCHANGED <<clock, left, backs, gen, newRes, loc, out, str, dec, x64,
                   multi, fid, fout>>

\* flake.go:65-67  ts, rem := getTsInfo(); lastTs := g.ts; seq := g.seq
Sample(p) ==
    /\ pc[p] = "sample"
    /\ loc' = [loc EXCEPT ![p].ts = clock,
                          ![p].lastTs = gen[loc[p].g].ts,
                          ![p].seq = gen[loc[p].g].seq]
    /\ pc' = [pc EXCEPT ![p] = "switch"]
    /\ UNCHANGED <<clock, left, backs, gen, newRes, mutex, out, str, dec, x64,
                   multi, fid, fout>>

\* flake.go:69-81  the switch, up to the first test of the wait loop
Switch(p) ==
    /\ pc[p] = "switch"
    /\ IF SameMs(loc[p].ts, loc[p].lastTs)
       THEN LET seq == NextSeq(loc[p].seq)
            IN  /\ loc' = [loc EXCEPT ![p].seq = seq,
                                      ![p].exh = (seq = 0)]
                /\ pc' = [pc EXCEPT ![p] =
                       IF seq = 0 /\ WaitCond(loc[p].ts, loc[p].lastTs)
                       THEN "wait" ELSE "commit"]
       ELSE /\ loc' = [loc EXCEPT ![p].seq = 0]
            /\ pc' = [pc EXCEPT ![p] = "commit"]
    /\ UNCHANGED <<clock, left, backs, gen, newRes, mutex, out, str, dec, x64,
                   multi, fid, fout>>

\* flake.go:74-77  one round of the wait loop: sleep, sample again, test
Wait(p) ==
    /\ pc[p] = "wait"
    /\ loc' = [loc EXCEPT ![p].ts = clock]
    /\ pc' = [pc EXCEPT ![p] =
           IF WaitCond(clock, loc[p].lastTs) THEN "wait" ELSE "commit"]
    /\ UNCHANGED <<clock, left, backs, gen, newRes, mutex, out, str, dec, x64,
                   multi, fid, fout>>

\* flake.go:83-94 and the deferred g.Unlock() of line 63: commit, return the ID
\* (to GenMulti, flake.go:101, when the call came from there)
Return(p) ==
    /\ pc[p] = "commit"
    /\ LET g == loc[p].g
       IN  /\ gen' = [gen EXCEPT ![g].ts = loc[p].ts, ![g].seq = loc[p].seq]
           /\ out' = [out EXCEPT ![g] = Append(@,
                  [id |-> MakeID(loc[p].ts, gen[g].fepoch, gen[g].workerID,
                                 loc[p].seq),
                   ts |-> loc[p].ts, seq |-> loc[p].seq,
                   lastTs |-> loc[p].lastTs, exh |-> loc[p].exh])]
           /\ mutex' = Unlock(g)
           /\ multi' = IF InBatch(p, "flake")
                        THEN [multi EXCEPT
                                 ![p].id = MakeID(loc[p].ts, gen[g].fepoch,
                                                  gen[g].workerID, loc[p].seq),
                                 ![p].idx = Append(@, Len(out[g]) + 1)]
                        ELSE multi
    /\ pc' = [pc EXCEPT ![p] = IF InBatch(p, "flake") THEN "store" ELSE "idle"]
    /\ loc' = [loc EXCEPT ![p] = NoLoc]
    /\ UNCHANGED <<clock, left, backs, newRes, str, dec, x64, fid, fout>>

\* A caller sleeping in the wait loop (flake.go:74-77, fid.go:71-74) for a clock
\* value the clock has not passed.
Waiting ==
    \E p \in Procs :
        \/ pc[p] = "wait" /\ clock <= loc[p].lastTs
        \/ pc[p] = "fwait" /\ clock <= fid.lastTs

\* time.Now() advances by a millisecond.
Tick ==
    /\ clock < MaxClock \/ Waiting
    /\ clock' = clock + 1
    /\ UNCHANGED <<left, backs, gen, newRes, mutex, pc, loc, out, str, dec, x64,
                   multi, fid, fout>>

\* The wall clock is set back by a millisecond (NTP step, manual change).
StepBack ==
    /\ backs < MaxBack
    /\ backs' = backs + 1
    /\ clock > 0
    /\ clock' = clock - 1
    /\ UNCHANGED <<left, gen, newRes, mutex, pc, loc, out, str, dec, x64, multi,
                   fid, fout>>

GenStep ==
    \/ \E p \in Procs, g \in Gens : Call(p, g)
    \/ \E p \in Procs : Lock(p)
    \/ \E p \in Procs : Sample(p)
    \/ \E p \in Procs : Switch(p)
    \/ \E p \in Procs : Wait(p)
    \/ \E p \in Procs : Return(p)

Next == GenStep \/ Tick

NextAnyClock == GenStep \/ Tick \/ StepBack

\* The generators and their callers under a clock that never goes back.
Spec == Init /\ [][Next]_vars

\* The same under a clock that may also be set back.
SpecAnyClock == InitBack /\ [][NextAnyClock]_vars

\* Two generators under a clock that may be set back.
SpecTwo == InitTwo /\ [][NextAnyClock]_vars

NextNew ==
    \/ \E g \in Gens, w \in WorkerInputs, e \in EpochInputs : NewGen(g, w, e)
    \/ Tick

\* Construction: NewGen called with valid and invalid arguments.
SpecNew == InitNew /\ [][NextNew]_vars

\* Scheduling for termination: the clock keeps advancing, sync.Mutex hands the
\* lock to every waiter in turn (its starvation mode), and a goroutine that can
\* take a step takes it.
Fairness ==
    /\ WF_vars(Tick)
    /\ \A p \in Procs :
          /\ SF_vars(Lock(p))
          /\ WF_vars(Sample(p) \/ Switch(p) \/ Wait(p) \/ Return(p))

SpecFair == InitFair /\ [][Next]_vars /\ Fairness

\* ------------------------------------------------- flake.go: Gen.GenMulti

RECURSIVE ShrN(_, _)
\* x >> n on a non-negative word.
ShrN(x, n) == IF n = 0 THEN x ELSE ShrN(x \div 2, n - 1)

\* byte(x): the low eight bits.
ByteOf(x) == x % 256

\* Mutation of StoreID: the least significant byte is stored first.
StoreIDLittle(b, i, id) ==
    LET off == i * 8
    IN  [k \in 1..Len(b) |->
            IF k > off /\ k <= off + 8
            THEN ByteOf(ShrN(id, 8 * (k - off - 1)))
            ELSE b[k]]

\* flake.go:102-110  off := i * 8; b[off+0] = byte(id >> 56) ... b[off+7] =
\* byte(id)  (fid.go:103-111 is the same code)
StoreID(b, i, id) ==
    LET off == i * 8
    IN  [k \in 1..Len(b) |->
            IF k > off /\ k <= off + 8
            THEN ByteOf(ShrN(id, 8 * (8 - (k - off))))
            ELSE b[k]]

\* flake.go:98-101  caller p enters g.GenMulti(n), its one batch:
\* b := make([]byte, n*8), and the loop either ends at once (n = 0) or calls
\* g.NextID().
MultiCall(p, g, n) ==
    /\ pc[p] = "idle"
    /\ multi[p].pkg = "none"
    /\ gen[g].made
    /\ left >= n
    /\ left' = left - n
    /\ multi' = [multi EXCEPT ![p] =
           NewMulti("flake", g, n, Len(out[g]), <<gen[g].ts, gen[g].seq>>)]
    /\ pc' = [pc EXCEPT ![p] = IF n = 0 THEN "idle" ELSE "lock"]
    /\ loc' = [loc EXCEPT ![p] = [NoLoc EXCEPT !.g = g]]
    /\ UNCHANGED <<clock, backs, gen, newRes, mutex, out, str, dec, x64, fid,
                   fout>>

\* flake.go:100-112  the ID NextID returned is stored in b, i is advanced, and
\* the loop either calls g.NextID() again or ends and b is returned.
MultiStore(p) ==
    /\ pc[p] = "store"
    /\ LET m == multi[p]
           last == m.i + 1 >= m.n
       IN  /\ multi' = [multi EXCEPT ![p].b = StoreID(m.b, m.i, m.id),
                                     ![p].i = m.i + 1,
                                     ![p].done = last]
           /\ pc' = [pc EXCEPT ![p] = IF last THEN "idle" ELSE "lock"]
           /\ loc' = [loc EXCEPT ![p] = [NoLoc EXCEPT !.g = m.g]]
    /\ UNCHANGED <<clock, left, backs, gen, newRes, mutex, out, str, dec, x64, fid,
                   fout>>

\* One generator, constructed by NewGen at clock value defaultEpoch, with the
\* call budget of the batches.
InitMulti ==
    /\ clock = defaultEpoch
    /\ \E m \in MadeGens(clock) : gen = [g \in Gens |-> IF g = 1 THEN m ELSE Nil]
    /\ left = MaxCallsMulti
    /\ Idle
    /\ NoFid
    /\ NoCodec

NextMulti ==
    \/ GenStep
    \/ \E g \in Gens, n \in 0..MaxBatch : MultiCall(1, g, n)
    \/ \E p \in Procs : MultiStore(p)
    \/ Tick

\* Caller 1 calls GenMulti (and NextID), the other callers NextID, on one
\* generator, the clock never going back.
SpecMulti == InitMulti /\ [][NextMulti]_vars

\* ------------------------------------------------------------------ fid.go

\* fid.go:18-26 are the constants of flake.go:11-18 (the same expressions, the
\* same values), so workerIDShift, timestampLeftShift, sequenceMask and
\* maxWorkerID above stand for both packages.

\* fid.go:29  the fixed epoch (the value flake.go:49 substitutes as default)
twepoch == EpochBound

\* Mutation of Behind: a sample equal to lastTs is rejected too.
BehindOrSame(ts, lastTs) == ts <= lastTs

\* Mutation of Behind: no sample is rejected.
BehindNever(ts, lastTs) == FALSE

\* fid.go:66  case ts < lastTs
Behind(ts, lastTs) == ts < lastTs

\* fid.go:82-91  the packed ID
FidMakeID(ts, workerID, seq) ==
    BitOr(BitOr(Shl(ts - twepoch, timestampLeftShift), Shl(workerID, workerIDShift)),
          seq)

\* What NextID hands back to GenMulti (fid.go:98) when the call came from there:
\* the ID or the error, noted with the place of the call in fout.
FidHandBack(p, id, err) ==
    IF InBatch(p, "fid")
    THEN [multi EXCEPT ![p].id = id, ![p].err = err,
                       ![p].idx = Append(@, Len(fout) + 1)]
    ELSE multi

\* fid.go:58  caller p enters NextID().
FCall(p) ==
    /\ pc[p] = "idle"
    /\ left > 0
    /\ left' = left - 1
    /\ pc' = [pc EXCEPT ![p] = "flock"]
    /\ loc' = [loc EXCEPT ![p] = NoLoc]
    /\ UNCHANGED <<clock, backs, gen, newRes, mutex, out, str, dec, x64, multi, fid,
                   fout>>

\* fid.go:59  mu.Lock()
FLock(p) ==
    /\ pc[p] = "flock"
    /\ fid.mu = NoProc
    /\ fid' = [fid EXCEPT !.mu = p]
    /\ pc' = [pc EXCEPT ![p] = "fsample"]
    /\ UNCHANGED <<clock, left, backs, gen, newRes, mutex, loc, out, str, dec, x64,
                   multi, fout>>

\* fid.go:63  ts, rem := getTsInfo(). loc[p].lastTs and loc[p].seq note the
\* values lastTs and seq have as the call begins its work.
FSample(p) ==
    /\ pc[p] = "fsample"
    /\ loc' = [loc EXCEPT ![p].ts = clock,
                          ![p].lastTs = fid.lastTs,
                          ![p].seq = fid.seq]
    /\ pc' = [pc EXCEPT ![p] = "fswitch"]
    /\ UNCHANGED <<clock, left, backs, gen, newRes, mutex, out, str, dec, x64, multi,
                   fid, fout>>

\* fid.go:65-78  the switch: the error return of line 67 (with the deferred
\* mu.Unlock() of line 60), or the update of seq up to the first test of the
\* wait loop.
FSwitch(p) ==
    /\ pc[p] = "fswitch"
    /\ IF Behind(loc[p].ts, fid.lastTs)
       THEN /\ fout' = Append(fout,
                   [err |-> TRUE, id |-> 0, ts |-> loc[p].ts, seq |-> fid.seq,
                    pre |-> <<loc[p].lastTs, loc[p].seq>>,
                    post |-> <<fid.lastTs, fid.seq>>, exh |-> FALSE])
            /\ fid' = [fid EXCEPT !.mu = NoProc]
            /\ multi' = FidHandBack(p, 0, TRUE)
            /\ pc' = [pc EXCEPT ![p] =
                   IF InBatch(p, "fid") THEN "fstore" ELSE "idle"]
            /\ loc' = [loc EXCEPT ![p] = NoLoc]
       ELSE IF loc[p].ts = fid.lastTs
       THEN LET seq == NextSeq(fid.seq)
            IN  /\ fid' = [fid EXCEPT !.seq = seq]
                /\ loc' = [loc EXCEPT ![p].exh = (seq = 0)]
                /\ pc' = [pc EXCEPT ![p] =
                       IF seq = 0 /\ WaitCond(loc[p].ts, fid.lastTs)
                       THEN "fwait" ELSE "fcommit"]
                /\ UNCHANGED <<multi, fout>>
       ELSE /\ fid' = [fid EXCEPT !.seq = 0]
            /\ pc' = [pc EXCEPT ![p] = "fcommit"]
            /\ UNCHANGED <<loc, multi, fout>>
    /\ UNCHANGED <<clock, left, backs, gen, newRes, mutex, out, str, dec, x64>>

\* fid.go:71-74  one round of the wait loop: sleep, sample again, test
FWait(p) ==
    /\ pc[p] = "fwait"
    /\ loc' = [loc EXCEPT ![p].ts = clock]
    /\ pc' = [pc EXCEPT ![p] =
           IF WaitCond(clock, fid.lastTs) THEN "fwait" ELSE "fcommit"]
    /\ UNCHANGED <<clock, left, backs, gen, newRes, mutex, out, str, dec, x64, multi,
                   fid, fout>>

\* fid.go:80-91 and the deferred mu.Unlock() of line 60: lastTs = ts, return
\* the ID
FReturn(p) ==
    /\ pc[p] = "fcommit"
    /\ LET id == FidMakeID(loc[p].ts, fid.workerID, fid.seq)
       IN  /\ fout' = Append(fout,
                  [err |-> FALSE, id |-> id, ts |-> loc[p].ts, seq |-> fid.seq,
                   pre |-> <<loc[p].lastTs, loc[p].seq>>,
                   post |-> <<loc[p].ts, fid.seq>>, exh |-> loc[p].exh])
           /\ multi' = FidHandBack(p, id, FALSE)
    /\ fid' = [fid EXCEPT !.lastTs = loc[p].ts, !.mu = NoProc]
    /\ pc' = [pc EXCEPT ![p] = IF InBatch(p, "fid") THEN "fstore" ELSE "idle"]
    /\ loc' = [loc EXCEPT ![p] = NoLoc]
    /\ UNCHANGED <<clock, left, backs, gen, newRes, mutex, out, str, dec, x64>>

\* fid.go:95-98  caller p enters GenMulti(n), its one batch:
\* b := make([]byte, n*8), and the loop either ends at once (n = 0) or calls
\* NextID().
FMultiCall(p, n) ==
    /\ pc[p] = "idle"
    /\ multi[p].pkg = "none"
    /\ left >= n
    /\ left' = left - n
    /\ multi' = [multi EXCEPT ![p] =
           NewMulti("fid", 0, n, Len(fout), <<fid.lastTs, fid.seq>>)]
    /\ pc' = [pc EXCEPT ![p] = IF n = 0 THEN "idle" ELSE "flock"]
    /\ loc' = [loc EXCEPT ![p] = NoLoc]
    /\ UNCHANGED <<clock, backs, gen, newRes, mutex, out, str, dec, x64, fid,
                   fout>>

\* fid.go:97-113  after NextID returned: on an error GenMulti returns nil and
\* the error; otherwise the ID is stored in b, i is advanced, and the loop
\* either calls NextID() again or ends and b is returned.
FMultiStore(p) ==
    /\ pc[p] = "fstore"
    /\ LET m == multi[p]
           last == m.i + 1 >= m.n
       IN  IF m.err
           THEN /\ multi' = [multi EXCEPT ![p].b = <<>>, ![p].nil = TRUE,
                                          ![p].done = TRUE]
                /\ pc' = [pc EXCEPT ![p] = "idle"]
           ELSE /\ multi' = [multi EXCEPT ![p].b = StoreID(m.b, m.i, m.id),
                                          ![p].i = m.i + 1,
                                          ![p].done = last]
                /\ pc' = [pc EXCEPT ![p] = IF last THEN "idle" ELSE "flock"]
    /\ UNCHANGED <<clock, left, backs, gen, newRes, mutex, loc, out, str, dec, x64,
                   fid, fout>>

\* Worker IDs Config accepts (fid.go:44-49: any other ends the program).
FidWorkers == {0, maxWorkerID}

\* The package fid after Config(maxWorkerID), at clock value twepoch, nobody in
\* a call.
InitFid ==
    /\ clock = twepoch
    /\ gen = [g \in Gens |-> Nil]
    /\ left = MaxCallsFid
    /\ Idle
    /\ fid = FidStart(maxWorkerID)
    /\ NoCodec

FidStep ==
    \/ \E p \in Procs : FLock(p)
    \/ \E p \in Procs : FSample(p)
    \/ \E p \in Procs : FSwitch(p)
    \/ \E p \in Procs : FWait(p)
    \/ \E p \in Procs : FReturn(p)

NextFid ==
    \/ \E p \in Procs : FCall(p)
    \/ FidStep
    \/ \E n \in 0..MaxBatch : FMultiCall(1, n)
    \/ \E p \in Procs : FMultiStore(p)
    \/ Tick
    \/ StepBack

\* The package-level generator under a clock that may be set back: caller 1
\* calls GenMulti (and NextID), the other callers NextID.
SpecFid == InitFid /\ [][NextFid]_vars

\* --------------------------------------- flake.go and fid.go side by side

\* Caller 1 uses a Gen with the default epoch, caller 2 the package fid with the
\* same worker ID.
InitAgree ==
    /\ clock \in 0..defaultEpoch
    /\ \E w \in FidWorkers :
          /\ gen = [g \in Gens |-> IF g = 1 THEN NewGenResult(w, 0, clock).g ELSE Nil]
          /\ fid = FidStart(w)
    /\ left = MaxCallsAgree
    /\ Idle
    /\ NoCodec

\* Caller p has sampled the clock in its current call.
Sampled(p) == pc[p] \in {"switch", "wait", "commit", "fswitch", "fwait", "fcommit"}

\* The two callers have been given the same clock samples so far and will be
\* given the same next one: they completed the same number of calls, and in the
\* current call either neither has sampled, or both have sampled the present
\* clock value, or both are in the wait loop.
Synced ==
    /\ Len(out[1]) = Len(fout)
    /\ \/ ~Sampled(1) /\ ~Sampled(2)
       \/ Sampled(1) /\ Sampled(2) /\ loc[1].ts = clock /\ loc[2].ts = clock
       \/ pc[1] = "wait" /\ pc[2] = "fwait"

\* The clock advances between two samples that both callers take.
TickSynced == Synced /\ Tick

NextAgree ==
    \/ Call(1, 1)
    \/ FCall(2)
    \/ \E p \in Procs : Lock(p)
    \/ \E p \in Procs : Sample(p)
    \/ \E p \in Procs : Switch(p)
    \/ \E p \in Procs : Wait(p)
    \/ \E p \in Procs : Return(p)
    \/ FidStep
    \/ TickSynced

\* Gen.NextID and fid.NextID given the same non-decreasing clock samples.
SpecAgree == InitAgree /\ [][NextAgree]_vars

\* ---------------------------------------------------- flake.go: the codec

\* A string is a sequence of characters of the URL-safe base64 alphabet, each
\* written as its 6-bit value 0..63 ('A' is 0, '_' is 63), of the padding
\* character '=' (PadChar) and of characters outside the alphabet (BadChar).
\* A 64-bit ID is written as its eight bytes, most significant first.
PadChar == 64
BadChar == 65
IsDigit(c) == c >= 0 /\ c <= 63

\* The three bytes four base64 digits carry.
QuantumBytes(c0, c1, c2, c3) ==
    LET val == c0 * 262144 + c1 * 4096 + c2 * 64 + c3
    IN  <<val \div 65536, (val \div 256) % 256, val % 256>>

RECURSIVE DecodeFrom(_, _, _)
\* base64.URLEncoding.DecodeString on s from position i, with the bytes decoded
\* so far: padded, four characters to a quantum, padding only at the very end.
DecodeFrom(s, i, acc) ==
    IF i > Len(s) THEN [err |-> FALSE, bytes |-> acc]
    ELSE IF Len(s) - i + 1 < 4 THEN [err |-> TRUE, bytes |-> acc]
    ELSE LET c0 == s[i]
             c1 == s[i + 1]
             c2 == s[i + 2]
             c3 == s[i + 3]
             last == i + 3 = Len(s)
             b == QuantumBytes(c0, c1, IF IsDigit(c2) THEN c2 ELSE 0,
                               IF IsDigit(c3) THEN c3 ELSE 0)
         IN  IF ~IsDigit(c0) \/ ~IsDigit(c1) THEN [err |-> TRUE, bytes |-> acc]
             ELSE IF c2 = PadChar
                  THEN IF c3 = PadChar /\ last
                       THEN [err |-> FALSE, bytes |-> acc \o <<b[1]>>]
                       ELSE [err |-> TRUE, bytes |-> acc]
             ELSE IF ~IsDigit(c2) THEN [err |-> TRUE, bytes |-> acc]
             ELSE IF c3 = PadChar
                  THEN IF last
                       THEN [err |-> FALSE, bytes |-> acc \o <<b[1], b[2]>>]
                       ELSE [err |-> TRUE, bytes |-> acc]
             ELSE IF ~IsDigit(c3) THEN [err |-> TRUE, bytes |-> acc]
             ELSE DecodeFrom(s, i + 4, acc \o b)

\* flake.go:139  bs, err := base64.URLEncoding.DecodeString(s)
DecodeString(s) == DecodeFrom(s, 1, <<>>)

\* int64(b) << (8 * k) as the eight bytes of a 64-bit word.
ShlByte(b, k) == [d \in 1..8 |-> IF d = 8 - k THEN b ELSE 0]

\* x | y on 64-bit words, byte by byte.
Or64(x, y) == [d \in 1..8 |-> BitOp("or", x[d], y[d], 8)]

\* flake.go:144-153  the ID assembled from bs[0..7]
AssembleID(bs) ==
    Or64(Or64(Or64(ShlByte(bs[1], 7), ShlByte(bs[2], 6)),
              Or64(ShlByte(bs[3], 5), ShlByte(bs[4], 4))),
         Or64(Or64(ShlByte(bs[5], 3), ShlByte(bs[6], 2)),
              Or64(ShlByte(bs[7], 1), ShlByte(bs[8], 0))))

\* flake.go:138-156  FlakeID.FromString(s) (fid.go:139-157 is the same code):
\* err is the error returned, panic the index-out-of-range panic of bs[k] on a
\* slice shorter than 8, n the number of bytes decoded, id the value stored.
FromString(s) ==
    LET r == DecodeString(s)
        n == Len(r.bytes)
    IN  IF r.err
        THEN [done |-> TRUE, err |-> TRUE, panic |-> FALSE, n |-> n, id |-> <<>>]
        ELSE IF n < 8
        THEN [done |-> TRUE, err |-> FALSE, panic |-> TRUE, n |-> n, id |-> <<>>]
        ELSE [done |-> TRUE, err |-> FALSE, panic |-> FALSE, n |-> n,
              id |-> AssembleID(r.bytes)]

\* Inputs: up to MaxQuanta pieces, each a full quantum, a padded one, one with a
\* character outside the alphabet, or a truncated one.
Pieces ==
    { <<0, 0, 0, 0>>, <<63, 63, 63, 63>>, <<18, 52, 22, 30>>,
      <<0, 0, 0, PadChar>>, <<63, 63, PadChar, PadChar>>,
      <<0, PadChar, PadChar, PadChar>>, <<BadChar, 0, 0, 0>>, <<0, 0, 0>> }

RECURSIVE Strings(_)
Strings(k) ==
    IF k = 0 THEN {<<>>}
    ELSE LET shorter == Strings(k - 1)
         IN  shorter \cup {t \o q : t \in shorter, q \in Pieces}

InitCodec ==
    /\ clock = 0
    /\ gen = [g \in Gens |-> Nil]
    /\ left = 0
    /\ Idle
    /\ NoFid
    /\ str \in Strings(MaxQuanta)
    /\ dec = NoDec
    /\ x64 = <<>>

\* id.FromString(str) is called.
Decode ==
    /\ ~dec.done
    /\ dec' = FromString(str)
    /\ UNCHANGED <<clock, left, backs, gen, newRes, mutex, pc, loc, out, str,
                   x64, multi, fid, fout>>

NextCodec == Decode

\* The codec applied to every input string.
SpecCodec == InitCodec /\ [][NextCodec]_vars

\* x >> (8 * k) on a 64-bit word written as its eight bytes.
Shr64(x, k) == [d \in 1..8 |-> IF d > k THEN x[d - k] ELSE 0]

\* byte(x): the low eight bits of a 64-bit word.
Byte64(x) == x[8]

\* Mutation of ToBytes: the least significant byte comes first.
ToBytesLittle(x) ==
    <<Byte64(Shr64(x, 0)), Byte64(Shr64(x, 1)), Byte64(Shr64(x, 2)),
      Byte64(Shr64(x, 3)), Byte64(Shr64(x, 4)), Byte64(Shr64(x, 5)),
      Byte64(Shr64(x, 6)), Byte64(Shr64(x, 7))>>

\* flake.go:116-129  FlakeID.ToBytes: b[0] = byte(id >> 56) ... b[7] = byte(id)
ToBytes(x) ==
    <<Byte64(Shr64(x, 7)), Byte64(Shr64(x, 6)), Byte64(Shr64(x, 5)),
      Byte64(Shr64(x, 4)), Byte64(Shr64(x, 3)), Byte64(Shr64(x, 2)),
      Byte64(Shr64(x, 1)), Byte64(Shr64(x, 0))>>

\* The four base64 digits that carry three bytes.
QuantumChars(b0, b1, b2) ==
    LET v == b0 * 65536 + b1 * 256 + b2
    IN  <<v \div 262144, (v \div 4096) % 64, (v \div 64) % 64, v % 64>>

RECURSIVE EncodeFrom(_, _)
\* base64.URLEncoding.EncodeToString on bs from position i: three bytes to a
\* quantum of four digits, the last quantum padded with '='.
EncodeFrom(bs, i) ==
    LET r == Len(bs) - i + 1
    IN  IF r <= 0 THEN <<>>
        ELSE IF r = 1
        THEN LET q == QuantumChars(bs[i], 0, 0)
             IN  <<q[1], q[2], PadChar, PadChar>>
        ELSE IF r = 2
        THEN LET q == QuantumChars(bs[i], bs[i + 1], 0)
             IN  <<q[1], q[2], q[3], PadChar>>
        ELSE QuantumChars(bs[i], bs[i + 1], bs[i + 2]) \o EncodeFrom(bs, i + 3)

\* flake.go:134  base64.URLEncoding.EncodeToString(bs)
EncodeToString(bs) == EncodeFrom(bs, 1)

\* flake.go:132-135  FlakeID.ToString (the name ToString is taken by module TLC)
IDToString(x) == EncodeToString(ToBytes(x))

\* The bytes the 64-bit values under test are made of.
ByteInputs == {0, 165, 255}

\* A 64-bit value is about to be encoded: every value made of the bytes above,
\* 0 and 2^64 - 1 among them.
InitRound ==
    /\ clock = 0
    /\ gen = [g \in Gens |-> Nil]
    /\ left = 0
    /\ Idle
    /\ NoFid
    /\ str = <<>>
    /\ dec = NoDec
    /\ x64 \in [1..8 -> ByteInputs]

\* s := id.ToString()
Encode ==
    /\ x64 # <<>>
    /\ str = <<>>
    /\ str' = IDToString(x64)
    /\ UNCHANGED <<clock, left, backs, gen, newRes, mutex, pc, loc, out, dec, x64,
                   multi, fid, fout>>

\* id.FromString(s) on the string ToString returned.
DecodeText == str # <<>> /\ Decode

NextRound == Encode \/ DecodeText

\* The codec's round trip: ToString, then FromString.
SpecRound == InitRound /\ [][NextRound]_vars

\* ------------------------------------------------------------------ claims

\* The i-th ID returned by generator g, with the values committed for it.
Ent(g, i) == out[g][i]
Idx(g) == 1..Len(out[g])

\* The sample ts lies in the range of the timestamp field of g:
\* epoch <= ts < epoch + 2^(timestamp bits).
InRange(g, ts) == 0 <= ts - gen[g].fepoch /\ ts - gen[g].fepoch < Pow2(TsBitsBound)

\* The fields decoded from a packed ID.
TsField(id) == id \div Pow2(sequenceBits + workerIDBits)
WorkerField(id) == (id \div Pow2(sequenceBits)) % Pow2(workerIDBits)
SeqField(id) == id % Pow2(sequenceBits)

\* C1: under a clock that never goes back, the IDs one generator returns for
\* samples within the timestamp range are strictly increasing in return order
\* (so no two of them are equal).
C1_StrictlyIncreasing ==
    \A g \in Gens : \A i, j \in Idx(g) :
        (i < j /\ InRange(g, Ent(g, i).ts) /\ InRange(g, Ent(g, j).ts))
            => Ent(g, i).id < Ent(g, j).id

\* C1 witness: a generator returned three in-range IDs, two in one millisecond
\* and one in a later millisecond.
C1_Witness ==
    \E g \in Gens : \E i \in Idx(g) :
        /\ i + 2 \in Idx(g)
        /\ Ent(g, i).ts = Ent(g, i + 1).ts
        /\ Ent(g, i + 1).ts < Ent(g, i + 2).ts
        /\ InRange(g, Ent(g, i).ts) /\ InRange(g, Ent(g, i + 2).ts)

\* C2 as amended: with concurrent callers and a clock that never goes back, no
\* two calls on one generator return the same ID as long as the samples are
\* within the timestamp range.
C2_UniqueInRange ==
    \A g \in Gens : \A i, j \in Idx(g) :
        (i # j /\ InRange(g, Ent(g, i).ts) /\ InRange(g, Ent(g, j).ts))
            => Ent(g, i).id # Ent(g, j).id

\* C2 witness: two callers were inside NextID of the same generator at once (one
\* holding the lock, one waiting for it) after the generator had returned IDs.
C2_Witness ==
    \E g \in Gens : \E p, q \in Procs :
        /\ p # q
        /\ pc[p] = "commit" /\ loc[p].g = g
        /\ pc[q] = "lock" /\ loc[q].g = g
        /\ Len(out[g]) >= 2
        /\ InRange(g, loc[p].ts)

\* C2 as stated: with concurrent callers and a clock that never goes back, no
\* two calls on one generator return the same ID (checked for the samples that
\* are not before the generator's epoch).
C2_UniqueAlways ==
    \A g \in Gens : \A i, j \in Idx(g) :
        (i # j /\ Ent(g, i).ts >= gen[g].fepoch /\ Ent(g, j).ts >= gen[g].fepoch)
            => Ent(g, i).id # Ent(g, j).id

\* C3 as stated: whatever the wall clock does, NextID never returns a value the
\* generator returned before (checked for samples within the timestamp range,
\* where the packing loses nothing).
C3_UniqueAnyClock ==
    \A g \in Gens : \A i, j \in Idx(g) :
        (i # j /\ InRange(g, Ent(g, i).ts) /\ InRange(g, Ent(g, j).ts))
            => Ent(g, i).id # Ent(g, j).id

\* C4: every returned ID is the packing of the committed sample and sequence;
\* for a sample within the timestamp range the three fields decode to
\* now - epoch, the worker ID and the sequence; and the sequence the generator
\* stores after a call is the one in the ID and lies in 0..2^(sequence bits)-1.
C4_Layout ==
    \A g \in Gens : \A i \in Idx(g) :
        LET e == Ent(g, i)
        IN  /\ e.seq \in 0..(Pow2(sequenceBits) - 1)
            /\ SeqField(e.id) = e.seq
            /\ InRange(g, e.ts) =>
                 /\ TsField(e.id) = e.ts - gen[g].fepoch
                 /\ WorkerField(e.id) = gen[g].workerID
                 /\ e.id = (e.ts - gen[g].fepoch) * Pow2(sequenceBits + workerIDBits)
                             + gen[g].workerID * Pow2(sequenceBits) + e.seq
            /\ i = Len(out[g]) => gen[g].seq = e.seq /\ gen[g].ts = e.ts

\* C4 witness: an ID with all three fields non-zero, and another whose sample is
\* past the timestamp range.
C4_Witness ==
    \E g \in Gens : \E i, j \in Idx(g) :
        /\ InRange(g, Ent(g, i).ts)
        /\ TsField(Ent(g, i).id) > 0
        /\ WorkerField(Ent(g, i).id) = Pow2(workerIDBits) - 1
        /\ SeqField(Ent(g, i).id) > 0
        /\ ~InRange(g, Ent(g, j).ts)

\* C5: two generators with different worker IDs never return the same ID,
\* whatever clock values they sample.
C5_DisjointWorkers ==
    (gen[1].made /\ gen[2].made /\ gen[1].workerID # gen[2].workerID) =>
        \A i \in Idx(1), j \in Idx(2) : Ent(1, i).id # Ent(2, j).id

\* C5 witness: two generators with different worker IDs returned IDs that agree
\* in the timestamp and sequence fields.
C5_Witness ==
    /\ gen[1].workerID # gen[2].workerID
    /\ \E i \in Idx(1), j \in Idx(2) :
          /\ TsField(Ent(1, i).id) = TsField(Ent(2, j).id)
          /\ SeqField(Ent(1, i).id) = SeqField(Ent(2, j).id)
          /\ Ent(1, i).ts # Ent(2, j).ts

\* C6: NewGen succeeds exactly for a worker ID in 0..2^(worker bits)-1 with an
\* epoch not later than the clock; it returns no generator and the worker ID
\* error for a worker ID outside that range (whatever the epoch), and the epoch
\* error for a valid worker ID with an epoch later than the clock.
C6_NewGen ==
    \A g \in Gens :
        LET r == newRes[g]
            wOk == r.workerID >= 0 /\ r.workerID <= Pow2(workerIDBits) - 1
        IN  r.err # "nocall" =>
              /\ (wOk /\ r.fepoch <= r.now) => (r.err = "none" /\ gen[g].made
                                                 /\ gen[g].workerID = r.workerID)
              /\ ~wOk => (r.err = "workerID" /\ ~gen[g].made)
              /\ (wOk /\ r.fepoch > r.now) => (r.err = "fepoch" /\ ~gen[g].made)

\* C6 witness: one NewGen call failed on the worker ID although its epoch was in
\* the future too, and another succeeded with the largest worker ID and an epoch
\* equal to the clock.
C6_Witness ==
    /\ newRes[1].err = "workerID" /\ newRes[1].fepoch > newRes[1].now
    /\ newRes[2].err = "none" /\ newRes[2].workerID = Pow2(workerIDBits) - 1
    /\ newRes[2].fepoch = newRes[2].now

\* C7: under a clock that never goes back, the IDs a generator returns for one
\* millisecond value carry the sequences 0, 1, 2, ... in return order: the first
\* ID of a generator and the first at each new millisecond have sequence 0, a
\* further ID in the same millisecond has the same timestamp field and the
\* sequence of its predecessor plus 1, and one millisecond value gets at most
\* 2^(sequence bits) IDs.
C7_SequencePerMs ==
    \A g \in Gens : \A i \in Idx(g) :
        LET e == Ent(g, i)
        IN  /\ (i = 1 \/ Ent(g, i - 1).ts # e.ts) => SeqField(e.id) = 0
            /\ (i > 1 /\ Ent(g, i - 1).ts = e.ts) =>
                 /\ SeqField(e.id) = SeqField(Ent(g, i - 1).id) + 1
                 /\ TsField(e.id) = TsField(Ent(g, i - 1).id)
            /\ (i > 1) => Ent(g, i - 1).ts <= e.ts
            /\ Cardinality({j \in Idx(g) : Ent(g, j).ts = e.ts})
                 <= Pow2(sequenceBits)

\* C7 witness: a generator returned every sequence 0 .. 2^(sequence bits)-1 in
\* one millisecond, then sequence 0 and sequence 1 in a later one.
C7_Witness ==
    \E g \in Gens : \E i \in Idx(g) :
        /\ i + 1 \in Idx(g)
        /\ i > 1
        /\ Cardinality({j \in Idx(g) : Ent(g, j).ts = Ent(g, i - 1).ts})
             = Pow2(sequenceBits)
        /\ Ent(g, i).ts > Ent(g, i - 1).ts
        /\ Ent(g, i).seq = 0
        /\ Ent(g, i + 1).ts = Ent(g, i).ts /\ Ent(g, i + 1).seq = 1

\* C8: a call that samples the stored timestamp while the stored sequence is the
\* largest one returns no ID for that millisecond: it stays in the wait loop,
\* holding the lock, while its samples are equal to or smaller than the stored
\* timestamp, and the ID it returns has a strictly greater timestamp and
\* sequence 0, both committed to the generator.
C8_Exhaustion ==
    /\ \A p \in Procs :
          /\ pc[p] = "wait" =>
                /\ loc[p].ts <= loc[p].lastTs
                /\ mutex[loc[p].g] = p
                /\ gen[loc[p].g].ts = loc[p].lastTs
                /\ gen[loc[p].g].seq = Pow2(sequenceBits) - 1
          /\ (pc[p] = "commit" /\ loc[p].ts = loc[p].lastTs) =>
                (~loc[p].exh /\ loc[p].seq >= 1)
    /\ \A g \in Gens : \A i \in Idx(g) :
          LET e == Ent(g, i)
          IN  /\ e.exh =>
                    /\ e.ts > e.lastTs
                    /\ e.seq = 0 /\ SeqField(e.id) = 0
                    /\ i > 1
                    /\ Ent(g, i - 1).ts = e.lastTs
                    /\ Ent(g, i - 1).seq = Pow2(sequenceBits) - 1
                    /\ i = Len(out[g]) => (gen[g].ts = e.ts /\ gen[g].seq = 0)
              /\ (i > 1 /\ Ent(g, i - 1).ts = e.ts) => e.seq = Ent(g, i - 1).seq + 1

\* C8 witness: in a behaviour where the clock was set back, a call went through
\* the exhaustion wait and returned an ID for the next millisecond.
C8_Witness ==
    \E g \in Gens : \E i \in Idx(g) :
        /\ Ent(g, i).exh
        /\ backs > 0
        /\ Ent(g, i).ts = Ent(g, i).lastTs + 1

\* C9: under fair scheduling and a clock that keeps advancing, every NextID
\* call returns and then holds no lock.
C9_Terminates ==
    \A p \in Procs :
        (pc[p] # "idle") ~> (pc[p] = "idle" /\ \A g \in Gens : mutex[g] # p)

\* C9 witness: every call of the budget has returned, one of them after the
\* exhaustion wait and one after waiting for the lock, and the lock is free.
C9_Witness ==
    /\ left = 0
    /\ \A p \in Procs : pc[p] = "idle"
    /\ \A g \in Gens : mutex[g] = NoProc
    /\ \E i \in Idx(1) : Ent(1, i).exh

\* C10 as stated: FromString returns an error, without crashing and without
\* accepting the input, for every string that does not decode to exactly 8
\* bytes.
C10_RejectsWrongLength ==
    (dec.done /\ dec.n # 8) => (dec.err /\ ~dec.panic)

\* C11: ToBytes(x) is the big-endian encoding of x (byte i of the result is
\* the i-th most significant byte of x), the eight bytes reassembled as
\* FromString does give x again, and FromString(ToString(x)) returns no error
\* and stores x.
C11_RoundTrip ==
    x64 # <<>> =>
        /\ Len(ToBytes(x64)) = 8
        /\ \A i \in 1..8 : ToBytes(x64)[i] = x64[i]
        /\ AssembleID(ToBytes(x64)) = x64
        /\ str # <<>> => str = IDToString(x64) /\ Len(str) = 12
        /\ dec.done => (~dec.err /\ ~dec.panic /\ dec.n = 8 /\ dec.id = x64)

\* C11 witness: the value 2^64 - 1 went through ToString and FromString, and so
\* did a value whose eight bytes are not all equal.
C11_Witness ==
    /\ dec.done
    /\ str # <<>>
    /\ x64 # <<>>
    /\ \/ \A i \in 1..8 : x64[i] = 255
       \/ x64 = <<165, 0, 0, 255, 0, 165, 255, 0>>

\* The eight bytes of the big-endian encoding of a word below 2^31.
BigEndian(id) ==
    [k \in 1..8 |-> IF k <= 4 THEN 0 ELSE (id \div Pow2(8 * (8 - k))) % 256]

\* The k-th 8-byte group of a byte slice.
Group(b, k) == [d \in 1..8 |-> b[8 * (k - 1) + d]]

\* What a GenMulti call has in common with successive NextID calls by its
\* caller, at every point of the call: the slice has 8*n bytes; each ID it got
\* is one NextID returned on the same generator after the call began, in return order;
\* group k of the slice is the big-endian encoding of the k-th of them, and the
\* groups not yet written are zero; the call returns after exactly n mints; and
\* when nobody minted after its last mint, the generator holds the timestamp
\* and sequence of that mint.
MultiAsSingles(p) ==
    LET m == multi[p]
        g == m.g
    IN  m.pkg = "flake" =>
          /\ Len(m.b) = 8 * m.n
          /\ m.i <= Len(m.idx) /\ Len(m.idx) <= m.i + 1 /\ Len(m.idx) <= m.n
          /\ m.done => (m.i = m.n /\ Len(m.idx) = m.n /\ ~m.nil /\ ~m.err)
          /\ \A k \in 1..Len(m.idx) :
                /\ m.idx[k] \in Idx(g)
                /\ m.idx[k] > m.from
                /\ k > 1 => m.idx[k - 1] < m.idx[k]
          /\ \A k \in 1..m.n :
                Group(m.b, k) = IF k <= m.i THEN BigEndian(Ent(g, m.idx[k]).id)
                                ELSE [d \in 1..8 |-> 0]
          /\ (m.done /\ m.n > 0 /\ m.idx[m.n] = Len(out[g])) =>
                /\ gen[g].ts = Ent(g, m.idx[m.n]).ts
                /\ gen[g].seq = Ent(g, m.idx[m.n]).seq

\* C12 as amended: GenMulti(n) is n successive NextID calls by its caller (see
\* MultiAsSingles), and the IDs of one batch whose samples are within the
\* timestamp range are strictly increasing, also with other callers minting on
\* the generator meanwhile.
C12_MultiInRange ==
    \A p \in Procs :
        /\ MultiAsSingles(p)
        /\ multi[p].pkg = "flake" =>
              \A j, k \in 1..Len(multi[p].idx) :
                  LET a == Ent(multi[p].g, multi[p].idx[j])
                      c == Ent(multi[p].g, multi[p].idx[k])
                  IN  (j < k /\ InRange(multi[p].g, a.ts)
                             /\ InRange(multi[p].g, c.ts)) => a.id < c.id

\* C12 witness: a batch of two returned, with an ID above 255 in it, while
\* another caller minted on the same generator between the two IDs of the batch.
C12_Witness ==
    \E p \in Procs :
        LET m == multi[p]
        IN  /\ m.pkg = "flake" /\ m.done /\ m.n = 2
            /\ m.idx[2] > m.idx[1] + 1
            /\ Ent(m.g, m.idx[2]).id > 255
            /\ \A k \in 1..2 : InRange(m.g, Ent(m.g, m.idx[k]).ts)

\* C12 as stated: the IDs of one batch are strictly increasing (checked for the
\* samples that are not before the generator's epoch).
C12_MultiIncreasing ==
    \A p \in Procs :
        multi[p].pkg = "flake" =>
            \A j, k \in 1..Len(multi[p].idx) :
                LET a == Ent(multi[p].g, multi[p].idx[j])
                    c == Ent(multi[p].g, multi[p].idx[k])
                IN  (j < k /\ a.ts >= gen[multi[p].g].fepoch
                           /\ c.ts >= gen[multi[p].g].fepoch) => a.id < c.id

\* C13 as stated: a fid.NextID call that returns an error leaves lastTs and seq
\* as they were when it began, and so does a fid.GenMulti call that returns an
\* error (checked for the batches during which nobody else called NextID).
C13_ErrorKeepsState ==
    /\ \A k \in 1..Len(fout) : fout[k].err => fout[k].post = fout[k].pre
    /\ \A p \in Procs :
          LET m == multi[p]
          IN  (/\ m.pkg = "fid" /\ m.done /\ m.err
               /\ \A k \in 1..Len(m.idx) : m.idx[k] = m.from + k)
                  => fout[m.idx[Len(m.idx)]].post = m.pre

\* The sample ts lies in the range of the timestamp field of package fid:
\* twepoch <= ts < twepoch + 2^(timestamp bits).
InRangeFid(ts) == 0 <= ts - twepoch /\ ts - twepoch < Pow2(TsBitsBound)

\* C18 as amended: fid.NextID returns an error and no ID exactly for the calls
\* that sample a clock value behind lastTs, and, whatever the wall clock does,
\* the IDs it returns for samples within the timestamp range are strictly
\* increasing in return order.
C18_FidInRange ==
    /\ \A k \in 1..Len(fout) :
          LET e == fout[k]
          IN  /\ e.err => (e.ts < e.pre[1] /\ e.id = 0 /\ e.post = e.pre)
              /\ ~e.err => (e.ts >= e.pre[1] /\ e.post[1] = e.ts)
              /\ (~e.err /\ e.exh) => e.ts > e.pre[1]
    /\ \A p \in Procs :
          pc[p] \in {"fwait", "fcommit"} =>
              (loc[p].exh \/ loc[p].ts >= loc[p].lastTs)
    /\ \A j, k \in 1..Len(fout) :
          (/\ j < k /\ ~fout[j].err /\ ~fout[k].err
           /\ InRangeFid(fout[j].ts) /\ InRangeFid(fout[k].ts))
              => fout[j].id < fout[k].id

\* C18 witness: after the clock was set back, fid.NextID returned an ID, then
\* an error, then an ID again.
C18_Witness ==
    /\ backs > 0
    /\ \E i, j, k \in 1..Len(fout) :
          /\ i < j /\ j < k
          /\ ~fout[i].err /\ fout[j].err /\ ~fout[k].err
          /\ InRangeFid(fout[i].ts) /\ InRangeFid(fout[k].ts)

\* C18 as stated: the IDs fid.NextID returns are strictly increasing for every
\* behaviour of the wall clock (checked for the samples that are not before
\* twepoch).
C18_FidIncreasing ==
    \A j, k \in 1..Len(fout) :
        (/\ j < k /\ ~fout[j].err /\ ~fout[k].err
         /\ fout[j].ts >= twepoch /\ fout[k].ts >= twepoch)
            => fout[j].id < fout[k].id

\* C19: given the same non-decreasing clock samples, the same worker ID and the
\* default epoch, fid.NextID returns no error and, call by call, the ID that
\* Gen.NextID returns, and after each call lastTs = g.ts and seq = g.seq.
C19_Agree ==
    /\ \A k \in 1..Len(fout) : ~fout[k].err
    /\ \A k \in 1..Len(fout) :
          k \in Idx(1) =>
              /\ fout[k].id = Ent(1, k).id
              /\ fout[k].post = <<Ent(1, k).ts, Ent(1, k).seq>>
    /\ (/\ Len(fout) = Len(out[1]) /\ Len(fout) >= 1
        /\ ~Sampled(1) /\ ~Sampled(2))
          => (fid.lastTs = gen[1].ts /\ fid.seq = gen[1].seq)

\* C19 witness: both generators returned three IDs, the third after the
\* exhaustion wait, the first for a clock value before the epoch.
C19_Witness ==
    /\ Len(fout) = 3 /\ Len(out[1]) = 3
    /\ fout[3].exh /\ Ent(1, 3).exh
    /\ fout[1].ts < twepoch
    /\ gen[1].fepoch = twepoch
    /\ fid.workerID = maxWorkerID

\* C14 as stated: every generator NewGen returns has a stored epoch that is not
\* later than the clock value NewGen sampled.
C14_EpochNotAfterClock ==
    \A g \in Gens :
        (newRes[g].err = "none" /\ gen[g].made) => gen[g].fepoch <= newRes[g].now

\* The callers of generator g that are between the clock sample and the commit.
InSection(g) ==
    {p \in Procs : loc[p].g = g /\ pc[p] \in {"sample", "switch", "wait", "commit"}}

\* C15: with a clock that never goes back and any interleaving of the callers,
\* at most one caller of a generator is between its clock sample and its
\* commit, that caller holds the generator's lock, the generator's ts and seq
\* do not change under it, and the ts it sampled is not less than the stored
\* g.ts when the switch is evaluated.
C15_CriticalSection ==
    \A g \in Gens :
        /\ Cardinality(InSection(g)) <= 1
        /\ \A p \in InSection(g) :
              /\ mutex[g] = p
              /\ pc[p] # "sample" =>
                    /\ loc[p].lastTs = gen[g].ts
                    /\ loc[p].ts >= gen[g].ts
              /\ pc[p] = "switch" => loc[p].seq = gen[g].seq

\* C15 witness: one caller is about to evaluate the switch with a sample equal
\* to the stored timestamp while another caller waits for the same lock.
C15_Witness ==
    \E p, q \in Procs :
        /\ pc[p] = "switch" /\ loc[p].g = 1
        /\ loc[p].ts = gen[1].ts
        /\ pc[q] = "lock" /\ loc[q].g = 1

C17_NeverFreshAgain ==
    \A g \in Gens :
        gen[g].made =>
            IF Len(out[g]) = 0
            THEN gen[g].ts = -1 /\ gen[g].seq = -1
            ELSE /\ gen[g].ts # -1 /\ gen[g].ts >= 0
                 /\ gen[g].seq \in 0..(Pow2(sequenceBits) - 1)

\* C17 witness: a generator that returned IDs holds clock value 0 and sequence 0
\* again after the clock was set back, while a caller is inside NextID.
C17_Witness ==
    /\ Len(out[1]) >= 2
    /\ gen[1].ts = 0 /\ gen[1].seq = 0
    /\ backs > 0
    /\ \E p \in Procs : pc[p] = "switch"

====
